---- MODULE Spec2Model ----
(***************************************************************************)
(* Model of the TTL cache of hypermcp (cache/cache.go): a TTL index        *)
(* (map key -> expiry, guarded by a sync.RWMutex) layered over a ristretto *)
(* store, with a background cleanup goroutine.                             *)
(*                                                                         *)
(* Every statement of Get/Set/Delete/Clear/cleanupExpired that touches     *)
(* shared state (the store, the index, the lock, the clock) is one step,   *)
(* so that all interleavings of callers and the cleanup goroutine are      *)
(* explored.  The store is the external collaborator: each of its          *)
(* operations is atomic (it is internally thread-safe), and a Set may      *)
(* silently not be admitted.                                               *)
(***************************************************************************)
EXTENDS Integers, FiniteSets, Sequences, TLC

\* ------------------------------------------------------------------ bounds
MaxTime == 2        \* the clock runs over 0..MaxTime
MaxIncs == 3        \* Increment* calls issued on a Metrics
MaxRetriesLimit == 3   \* Config.MaxRetries of an httpx Client ranges over 0..MaxRetriesLimit
MaxRegs == 3        \* AddTool/AddResource/AddResourceTemplate calls on a Server
MaxShutdowns == 2   \* Shutdown calls on a Server

\* ------------------------------------------------------------- value sets
Callers  == {"c1", "c2"}
Keys     == {"a", "b"}
Vals     == {"v1", "v2"}
TTLs     == {-1, 0, 1}             \* time.Duration arguments of Set
CfgVals  == {-1, 0, 1, 2}          \* sizing parameters handed to New
Reaper   == "reaper"
None     == "none"                 \* nil value / no lock holder
NoExpiry == -1                     \* key absent from c.ttls

Fields == {"MaxCost", "NumCounters", "BufferItems"}

VARIABLES
    cfg,      \* the Config handed to New
    nstate,   \* "pending" before New, then "ok" | "err"
    nerr,     \* the error New returned
    now,      \* time.Now()
    ttls,     \* c.ttls   : key -> expiry | NoExpiry
    store,    \* c.store  : key -> value  | None
    closed,   \* c.store.Close() has run
    mu,       \* c.mu     : [w |-> holder | None, r |-> set of holders]
    call,     \* per caller: pc, op, key, val, ttl, exp (local expiry), res
    rpc,      \* cleanupExpired: position
    rnow,     \* cleanupExpired: now
    expired,  \* cleanupExpired: keys collected and not yet deleted
    rkey,     \* cleanupExpired: key being deleted
    hist,     \* history of the calls (observer state, read by no operation)
    counters, \* Metrics: the five atomic.Int64 counters
    gpc,      \* per goroutine: the Increment* method it is in, or "idle"
    spc,      \* Snapshot: SnapIdle, the index of its next Load, or SnapDone
    snap,     \* Snapshot: the MetricsSnapshot under construction / returned
    issued,   \* Increment* calls invoked so far, by method (observer)
    cand,     \* counter valuations held since Snapshot's call that agree
              \* with every value it has loaded so far (observer)
    squiet,   \* Snapshot was called with every Increment* call returned,
              \* and none has been invoked since (observer)
    hcfg,     \* httpx Client: c.config.MaxRetries
    hpc,      \* DoJSON: "idle" | "op" | "backoff" | "sleep" | "done"
    attempts, \* DoJSON: calls of operation() so far
    numTries, \* backoff.WithMaxRetries: retries granted so far
    herr,     \* the error of the last operation(), then the one DoJSON returns
    hres,     \* *result
    cancelled, \* ctx.Done() is closed
    elapsedOut, \* the backoff's MaxElapsedTime (RequestTimeout) has run out
    hobs,     \* what the server answered (observer)
    vcfg,     \* the httpx Config handed to NewWithConfig
    vpc,      \* NewWithConfig: "pending" | "done"
    vclient,  \* the *Client NewWithConfig returned: "nil" | "client"
    verr,     \* the error NewWithConfig returned
    scfg,     \* the hypermcp Config handed to New
    sstate,   \* hypermcp.New: "pending", then "ok" (a *Server) | "err" (nil)
    serr,     \* the error hypermcp.New returned
    made,     \* what hypermcp.New has constructed: "http", "cache", "mcp"
    toolCount,     \* s.toolCount
    resourceCount, \* s.resourceCount
    shpc,     \* Shutdown: "idle" | "stats" | "close" | "ctx"
    ctxDone,  \* the context handed to Shutdown is cancelled
    shret,    \* what the last Shutdown returned: "none" | "nil" | "ctx"
    tret,     \* what RunWithTransport returned ("none" before it is called)
    sobs      \* calls made on the server so far (observer)

cacheVars  == <<now, ttls, store, closed, mu, call, rpc, rnow, expired, rkey, hist>>
newVars    == <<cfg, nstate, nerr>>
metVars    == <<counters, gpc, spc, snap, issued, cand, squiet>>
httpVars   == <<hcfg, hpc, attempts, numTries, herr, hres, cancelled, elapsedOut, hobs>>
valVars    == <<vcfg, vpc, vclient, verr>>
srvVars    == <<scfg, sstate, serr, made, toolCount, resourceCount, shpc, ctxDone,
                shret, tret, sobs>>
\* what the cache does not touch
outsideCache == <<metVars, httpVars, valVars, srvVars>>
\* what the Metrics do not touch
outsideMetrics == <<cfg, nstate, nerr, now, ttls, store, closed, mu, call,
                    rpc, rnow, expired, rkey, hist, httpVars, valVars, srvVars>>
\* what the httpx Client does not touch
outsideHttp == <<cfg, nstate, nerr, now, ttls, store, closed, mu, call,
                 rpc, rnow, expired, rkey, hist, metVars, valVars, srvVars>>
\* what NewWithConfig does not touch
outsideVal == <<cfg, nstate, nerr, now, ttls, store, closed, mu, call,
                rpc, rnow, expired, rkey, hist, metVars, httpVars, srvVars>>
\* what the Server does not touch (the cache it owns apart)
outsideSrv == <<metVars, httpVars, valVars>>
vars       == <<cfg, nstate, nerr, now, ttls, store, closed, mu, call,
                rpc, rnow, expired, rkey, hist, metVars, httpVars, valVars, srvVars>>

\* ------------------------------------------------------- the external store
\* store.Get(key): (value, found)
StoreGet(s, k) == s[k]

\* store.Set(key, value, cost): admitted or silently dropped
StoreSet(s, k, v, admitted) == IF admitted THEN [s EXCEPT ![k] = v] ELSE s

\* a store whose Del removes nothing
StoreDel_Keep(s, k) == s

\* a store whose Del empties the store
StoreDel_All(s, k) == [j \in Keys |-> None]

\* store.Del(key)
StoreDel(s, k) == [s EXCEPT ![k] = None]

\* a store whose Clear removes nothing
StoreClear_Keep(s) == s

\* store.Clear()
StoreClear(s) == [k \in Keys |-> None]

\* ------------------------------------------------------------ the TTL index
\* c.ttls[key] = time.Now().Add(ttl)
TtlPut(t, k, e) == [t EXCEPT ![k] = e]

\* an index whose delete removes nothing
TtlDelete_Keep(t, k) == t

\* a delete that is not idempotent: it puts back a key that is absent
TtlDelete_Toggle(t, k) == [t EXCEPT ![k] = IF @ = NoExpiry THEN 0 ELSE NoExpiry]

\* delete(c.ttls, key)
TtlDelete(t, k) == [t EXCEPT ![k] = NoExpiry]

\* c.ttls = make(map[string]time.Time)
TtlReset(t) == [k \in Keys |-> NoExpiry]

\* hasExpiry && time.Now().After(expiry)
IsExpired(e, t) == e # NoExpiry /\ t > e

\* a scan that collects nothing
Collect_None(t, n) == {}

\* the keys cleanupExpired collects: now.After(expiry)
Collect(t, n) == {k \in Keys : IsExpired(t[k], n)}

\* a Set that records an expiry also for ttl = 0
TracksTTL_Zero(d) == d >= 0

\* if ttl > 0 { ... } in Set
TracksTTL(d) == d > 0

\* ------------------------------------------------------------- sync.RWMutex
CanRLock(m) == m.w = None
CanLock(m)  == m.w = None /\ m.r = {}
RLock(m, p)   == [m EXCEPT !.r = @ \cup {p}]
RUnlock(m, p) == [m EXCEPT !.r = @ \ {p}]
Lock(m, p)    == [m EXCEPT !.w = p]
Unlock(m, p)  == [m EXCEPT !.w = None]

\* ------------------------------------------------------------------ callers
Idle == [pc |-> "idle", op |-> None, key |-> "a", val |-> None,
         ttl |-> 0, exp |-> NoExpiry, res |-> None]

\* a call returns: its locals die; what a Get returned stays visible to the caller
Return(c, r) ==
    [call EXCEPT ![c] = IF call[c].op = "Get"
                        THEN [Idle EXCEPT !.op = "Get", !.key = call[c].key, !.res = r]
                        ELSE Idle]

Enter(c, o, k, first) == [call EXCEPT ![c] = [pc |-> first, op |-> o, key |-> k,
                                               val |-> None, ttl |-> 0,
                                               exp |-> NoExpiry, res |-> None]]

CanCall(c) == /\ nstate = "ok"
              /\ ~closed
              /\ call[c].pc = "idle"

TypeOK ==
    /\ now \in 0..MaxTime
    /\ ttls \in [Keys -> {NoExpiry} \cup (0..(MaxTime + 1))]
    /\ store \in [Keys -> Vals \cup {None}]
    /\ closed \in BOOLEAN
    /\ mu.w \in Callers \cup {Reaper, None}
    /\ mu.r \subseteq Callers \cup {Reaper}


\* ------------------------------------------------------------- call history
\* What an observer of the calls records.  No operation reads it.  Each
\* specification runs one observer (hist.obs), the others stay idle:
\*
\* "set"   last[k]   value (or Dropped, when the store did not admit it) and
\*                   recorded expiry of the Set of k that returned last, as
\*                   long as no other Set of k overlapped it or has been
\*                   invoked since; NoSet otherwise
\*         undel[k]  no caller's Delete(k) or Clear overlapped that Set or
\*                   has been invoked since
\*         adm[c]    the store admitted the value of c's Set in flight
\*         ovl[c]    the kinds of caller operation on the key ("set", "del")
\*                   that have overlapped c's Set in flight
\*         gcov[c]   what held when c's Get was invoked and has held since:
\*                   "cov" last[key] was recorded, "late" the clock had
\*                   passed its expiry, "quiet" no Set (of any key) in flight
\* "del"   delOk[k]  a caller's Delete(k) returned, no Set of k overlapped it
\*                   and none has been invoked since ("hit": the key was
\*                   stored or indexed when it was called, else "clean")
\*         clrOk     likewise for Clear and Sets of any key ("hit": some key
\*                   was stored or indexed when it was called, "all": every
\*                   key was stored)
\*         clean[c]  no Set has overlapped c's Delete / Clear in flight
\*         gcov[c]   "del" / "clr": delOk[key] / clrOk held when c's Get was
\*                   invoked and has held since ("delhit", "clrall": it was
\*                   "hit" / "all")
\* "idx"   gcov[c]   "due": when c's Get was invoked the index held an expiry
\*                   <= now for the key and no Set of it was in flight, and
\*                   none has been invoked since
\*                   "alone": no Set of the key was in flight when c's Get
\*                   was invoked, and none has been invoked since
\*                   "lazy": c's Get returned through its call of Delete
\*                   "fresh": when c's Get was invoked the index held no
\*                   expiry for the key or one > now, and that has held
\*                   at every instant since
\* "off"             nothing is recorded
\* "pair"  pair[c]   value and recorded expiry of c's Set that returned last,
\*                   as long as c has invoked no Set since and no other
\*                   caller has invoked one after that Set returned and after
\*                   its own had returned: two recorded pairs are those of
\*                   two Sets that overlapped, no Set invoked since
\* "reap"  quiet[k]  the expiry recorded by a Set of k that returned while no
\*                   caller had an operation on k in flight, as long as none
\*                   has been invoked since; NoExpiry otherwise
\*         rcov      the keys whose quiet expiry had passed when the current
\*                   (or last) tick of the cleanup goroutine began
Dropped == "dropped"
NoSet   == [v |-> None, e |-> NoExpiry]
No      == "no"

HistInit(o) ==
    [obs   |-> o,
     last  |-> [k \in Keys |-> NoSet],
     undel |-> [k \in Keys |-> FALSE],
     adm   |-> [c \in Callers |-> FALSE],
     ovl   |-> [c \in Callers |-> {}],
     gcov  |-> [c \in Callers |-> {}],
     delOk |-> [k \in Keys |-> No],
     clrOk |-> No,
     clean |-> [c \in Callers |-> No],
     quiet |-> [k \in Keys |-> NoExpiry],
     rcov  |-> {},
     pair  |-> [c \in Callers |-> NoSet]]

\* the kind of the operation caller d has in flight on key k, if any
Kind(d, k) ==
    IF call[d].pc = "idle" THEN {}
    ELSE IF call[d].op = "Clear" THEN {"del"}
    ELSE IF call[d].key # k THEN {}
    ELSE IF call[d].op = "Get" THEN {"get"}
    ELSE IF call[d].op = "Set" THEN {"set"}
    ELSE {"del"}

OthersOn(c, k) == UNION {Kind(d, k) : d \in Callers \ {c}}

SetInFlight == \E d \in Callers : call[d].pc # "idle" /\ call[d].op = "Set"

\* the Get record of caller d is about key k
GetOn(d, k) == call[d].op = "Get" /\ call[d].key = k

\* Get(k) is invoked by c
HGet(h, c, k) ==
    CASE h.obs = "set" ->
           [h EXCEPT !.gcov[c] =
               (IF h.last[k] # NoSet THEN {"cov"} ELSE {})
               \cup (IF h.last[k] # NoSet /\ h.last[k].e # NoExpiry /\ now > h.last[k].e
                     THEN {"late"} ELSE {})
               \cup (IF h.last[k] # NoSet /\ ~SetInFlight THEN {"quiet"} ELSE {})]
      [] h.obs = "del" ->
           [h EXCEPT !.gcov[c] =
               (IF h.delOk[k] # No THEN {"del"} ELSE {})
               \cup (IF h.delOk[k] = "hit" THEN {"delhit"} ELSE {})
               \cup (IF h.clrOk # No THEN {"clr"} ELSE {})
               \cup (IF h.clrOk = "all" THEN {"clrall"} ELSE {})]
      [] h.obs = "idx" ->
           [h EXCEPT !.gcov[c] =
               (IF ttls[k] # NoExpiry /\ ttls[k] <= now /\ "set" \notin OthersOn(c, k)
                THEN {"due"} ELSE {})
               \cup (IF "set" \notin OthersOn(c, k) THEN {"alone"} ELSE {})
               \cup (IF ttls[k] = NoExpiry \/ ttls[k] > now THEN {"fresh"} ELSE {})]
      [] h.obs \in {"off", "pair"} -> h
      [] OTHER ->
           [h EXCEPT !.quiet[k] = NoExpiry, !.rcov = @ \ {k}]

\* Set(k, ...) is invoked by c
HSetCall(h, c, k, admitted) ==
    CASE h.obs = "set" ->
           [h EXCEPT !.last[k] = NoSet,
                     !.undel[k] = FALSE,
                     !.adm[c] = admitted,
                     !.ovl = [d \in Callers |->
                                IF d = c THEN OthersOn(c, k) \cap {"set", "del"}
                                ELSE IF "set" \in Kind(d, k) THEN h.ovl[d] \cup {"set"}
                                ELSE h.ovl[d]],
                     !.gcov = [d \in Callers |->
                                 IF d = c \/ GetOn(d, k) THEN {}
                                 ELSE h.gcov[d] \ {"quiet"}]]
      [] h.obs = "del" ->
           [h EXCEPT !.delOk[k] = No,
                     !.clrOk = No,
                     !.clean = [d \in Callers |->
                                  IF d # c /\ "del" \in Kind(d, k) THEN No
                                  ELSE h.clean[d]],
                     !.gcov = [d \in Callers |->
                                 IF d = c THEN {}
                                 ELSE IF GetOn(d, k) THEN {}
                                 ELSE h.gcov[d] \ {"clr", "clrall"}]]
      [] h.obs = "idx" ->
           [h EXCEPT !.gcov = [d \in Callers |->
                                 IF d = c THEN {}
                                 ELSE IF GetOn(d, k) THEN h.gcov[d] \cap {"fresh"}
                                 ELSE h.gcov[d]]]
      [] h.obs = "pair" ->
           [h EXCEPT !.pair = [d \in Callers |->
                                 IF d = c \/ call[d].pc = "idle" THEN NoSet
                                 ELSE h.pair[d]]]
      [] h.obs = "off" -> h
      [] OTHER ->
           [h EXCEPT !.quiet[k] = NoExpiry, !.rcov = @ \ {k}]

\* c's Set(k, v, ttl) returns, having recorded expiry e (NoExpiry: none)
HSetRet(h, c, k, v, e) ==
    CASE h.obs = "set" ->
           [h EXCEPT !.last[k] = IF "set" \in h.ovl[c] THEN NoSet
                                 ELSE [v |-> IF h.adm[c] THEN v ELSE Dropped, e |-> e],
                     !.undel[k] = h.ovl[c] = {},
                     !.adm[c] = FALSE,
                     !.ovl[c] = {}]
      [] h.obs = "del" -> h
      [] h.obs = "idx" -> h
      [] h.obs = "pair" -> [h EXCEPT !.pair[c] = [v |-> v, e |-> e]]
      [] h.obs = "off" -> h
      [] OTHER ->
           [h EXCEPT !.quiet[k] = IF OthersOn(c, k) = {} THEN e ELSE NoExpiry]

\* Delete(k) is invoked by c
HDelCall(h, c, k) ==
    CASE h.obs = "set" ->
           [h EXCEPT !.undel[k] = FALSE,
                     !.ovl = [d \in Callers |->
                                IF "set" \in Kind(d, k) THEN h.ovl[d] \cup {"del"}
                                ELSE h.ovl[d]],
                     !.gcov[c] = {}]
      [] h.obs = "del" ->
           [h EXCEPT !.clean[c] = IF "set" \in OthersOn(c, k) THEN No
                                  ELSE IF store[k] # None \/ ttls[k] # NoExpiry THEN "hit"
                                  ELSE "clean",
                     !.gcov[c] = {}]
      [] h.obs = "idx" -> [h EXCEPT !.gcov[c] = {}]
      [] h.obs \in {"off", "pair"} -> h
      [] OTHER ->
           [h EXCEPT !.quiet[k] = NoExpiry, !.rcov = @ \ {k}]

\* c's Delete(k) returns
HDelRet(h, c, k) ==
    CASE h.obs = "del" -> [h EXCEPT !.delOk[k] = h.clean[c], !.clean[c] = No]
      [] OTHER -> h

\* c's Get(k) returns from the Delete it called
HLazy(h, c) ==
    CASE h.obs = "idx" -> [h EXCEPT !.gcov[c] = @ \cup {"lazy"}]
      [] OTHER -> h

\* Clear() is invoked by c
HClrCall(h, c) ==
    CASE h.obs = "set" ->
           [h EXCEPT !.undel = [k \in Keys |-> FALSE],
                     !.ovl = [d \in Callers |->
                                IF call[d].pc # "idle" /\ call[d].op = "Set"
                                THEN h.ovl[d] \cup {"del"} ELSE h.ovl[d]],
                     !.gcov[c] = {}]
      [] h.obs = "del" ->
           [h EXCEPT !.clean[c] = IF SetInFlight THEN No
                                  ELSE IF \A k \in Keys : store[k] # None THEN "all"
                                  ELSE IF \E k \in Keys : store[k] # None \/ ttls[k] # NoExpiry
                                       THEN "hit"
                                  ELSE "clean",
                     !.gcov[c] = {}]
      [] h.obs = "idx" -> [h EXCEPT !.gcov[c] = {}]
      [] h.obs \in {"off", "pair"} -> h
      [] OTHER ->
           [h EXCEPT !.quiet = [k \in Keys |-> NoExpiry], !.rcov = {}]

\* c's Clear() returns
HClrRet(h, c) ==
    CASE h.obs = "del" -> [h EXCEPT !.clrOk = h.clean[c], !.clean[c] = No]
      [] OTHER -> h

\* the clock moves on to t
HClock(h, t) ==
    CASE h.obs = "idx" ->
           [h EXCEPT !.gcov = [d \in Callers |->
                                 IF call[d].op = "Get" /\ ttls[call[d].key] # NoExpiry
                                    /\ ttls[call[d].key] <= t
                                 THEN h.gcov[d] \ {"fresh"} ELSE h.gcov[d]]]
      [] OTHER -> h

\* a tick of the cleanup goroutine begins
HTick(h) ==
    CASE h.obs = "reap" ->
           [h EXCEPT !.rcov = {k \in Keys : h.quiet[k] # NoExpiry /\ now > h.quiet[k]}]
      [] OTHER -> h

\* ---------------------------------------------------------------- New
\* ristretto.NewCache(&ristretto.Config{...}): the store's constructor rejects
\* a zero parameter; New itself checks nothing, so whether a negative one is
\* rejected is the store's decision (accept models the store taking it).
NewCache(c, accept) ==
    IF \E f \in Fields : c[f] = 0 THEN "ErrStore"
    ELSE IF (\E f \in Fields : c[f] < 0) /\ ~accept THEN "ErrStore"
    ELSE "nil"

\* New: store, err := ristretto.NewCache(...); if err != nil { return nil, err };
\* c := &Cache{...}; go c.cleanupExpired(); return c, nil
New ==
    /\ nstate = "pending"
    /\ \E accept \in BOOLEAN :
         LET err == NewCache(cfg, accept) IN
         /\ nerr' = err
         /\ nstate' = IF err = "nil" THEN "ok" ELSE "err"
         /\ rpc' = IF err = "nil" THEN "wait" ELSE "off"
    /\ UNCHANGED <<cfg, now, ttls, store, closed, mu, call, rnow, expired, rkey, hist>>
    /\ UNCHANGED outsideCache

\* ---------------------------------------------------------------- Get
\* c.mu.RLock()
Get(c, k) ==
    /\ CanCall(c)
    /\ CanRLock(mu)
    /\ mu' = RLock(mu, c)
    /\ call' = Enter(c, "Get", k, "get_read")
    /\ UNCHANGED <<now, ttls, store, closed, rpc, rnow, expired, rkey>>
    /\ UNCHANGED newVars
    /\ UNCHANGED outsideCache
    /\ hist' = HGet(hist, c, k)

\* the index read without c.mu.RUnlock()
GetRead_Holding(c) ==
    /\ call[c].pc = "get_read"
    /\ call' = [call EXCEPT ![c].exp = ttls[call[c].key], ![c].pc = "get_check"]
    /\ UNCHANGED <<now, ttls, store, closed, mu, rpc, rnow, expired, rkey>>
    /\ UNCHANGED newVars
    /\ UNCHANGED outsideCache
    /\ UNCHANGED hist

\* expiry, hasExpiry := c.ttls[key]; c.mu.RUnlock()
GetRead(c) ==
    /\ call[c].pc = "get_read"
    /\ call' = [call EXCEPT ![c].exp = ttls[call[c].key], ![c].pc = "get_check"]
    /\ mu' = RUnlock(mu, c)
    /\ UNCHANGED <<now, ttls, store, closed, rpc, rnow, expired, rkey>>
    /\ UNCHANGED newVars
    /\ UNCHANGED outsideCache
    /\ UNCHANGED hist

\* if hasExpiry && time.Now().After(expiry) { c.Delete(key); return nil, false }
GetCheck(c) ==
    /\ call[c].pc = "get_check"
    /\ call' = [call EXCEPT ![c].pc = IF IsExpired(call[c].exp, now)
                                      THEN "del_store" ELSE "get_store",
                            ![c].exp = NoExpiry]
    /\ UNCHANGED <<now, ttls, store, closed, mu, rpc, rnow, expired, rkey>>
    /\ UNCHANGED newVars
    /\ UNCHANGED outsideCache
    /\ UNCHANGED hist

\* value, found := c.store.Get(key); return
GetStore(c) ==
    /\ call[c].pc = "get_store"
    /\ call' = Return(c, StoreGet(store, call[c].key))
    /\ UNCHANGED <<now, ttls, store, closed, mu, rpc, rnow, expired, rkey>>
    /\ UNCHANGED newVars
    /\ UNCHANGED outsideCache
    /\ UNCHANGED hist

\* ---------------------------------------------------------------- Delete
\* Delete called by a caller: c.store.Del(key)
Delete(c, k) ==
    /\ CanCall(c)
    /\ store' = StoreDel(store, k)
    /\ call' = Enter(c, "Delete", k, "del_lock")
    /\ UNCHANGED <<now, ttls, closed, mu, rpc, rnow, expired, rkey>>
    /\ UNCHANGED newVars
    /\ UNCHANGED outsideCache
    /\ hist' = HDelCall(hist, c, k)

\* the lazy deletion without its c.store.Del(key)
DelStore_Skip(c) ==
    /\ call[c].pc = "del_store"
    /\ call' = [call EXCEPT ![c].pc = "del_lock"]
    /\ UNCHANGED <<now, ttls, store, closed, mu, rpc, rnow, expired, rkey>>
    /\ UNCHANGED newVars
    /\ UNCHANGED outsideCache
    /\ UNCHANGED hist

\* Delete called from Get (lazy deletion): c.store.Del(key)
DelStore(c) ==
    /\ call[c].pc = "del_store"
    /\ store' = StoreDel(store, call[c].key)
    /\ call' = [call EXCEPT ![c].pc = "del_lock"]
    /\ UNCHANGED <<now, ttls, closed, mu, rpc, rnow, expired, rkey>>
    /\ UNCHANGED newVars
    /\ UNCHANGED outsideCache
    /\ UNCHANGED hist

\* c.mu.Lock()
DelLock(c) ==
    /\ call[c].pc = "del_lock"
    /\ CanLock(mu)
    /\ mu' = Lock(mu, c)
    /\ call' = [call EXCEPT ![c].pc = "del_idx"]
    /\ UNCHANGED <<now, ttls, store, closed, rpc, rnow, expired, rkey>>
    /\ UNCHANGED newVars
    /\ UNCHANGED outsideCache
    /\ UNCHANGED hist

\* delete(c.ttls, key); c.mu.Unlock(); return (Get then returns nil, false)
DelIdx(c) ==
    /\ call[c].pc = "del_idx"
    /\ ttls' = TtlDelete(ttls, call[c].key)
    /\ mu' = Unlock(mu, c)
    /\ call' = Return(c, None)
    /\ UNCHANGED <<now, store, closed, rpc, rnow, expired, rkey>>
    /\ UNCHANGED newVars
    /\ UNCHANGED outsideCache
    /\ hist' = IF call[c].op = "Delete" THEN HDelRet(hist, c, call[c].key)
               ELSE HLazy(hist, c)

\* ---------------------------------------------------------------- Set
\* c.store.Set(key, value, cost); without a positive ttl Set returns here
Set(c, k, v, d, admitted) ==
    /\ CanCall(c)
    /\ store' = StoreSet(store, k, v, admitted)
    /\ call' = IF TracksTTL(d)
               THEN [call EXCEPT ![c] = [pc |-> "set_lock", op |-> "Set", key |-> k,
                                          val |-> v, ttl |-> d, exp |-> NoExpiry,
                                          res |-> None]]
               ELSE [call EXCEPT ![c] = Idle]
    /\ UNCHANGED <<now, ttls, closed, mu, rpc, rnow, expired, rkey>>
    /\ UNCHANGED newVars
    /\ UNCHANGED outsideCache
    /\ hist' = IF TracksTTL(d) THEN HSetCall(hist, c, k, admitted)
               ELSE HSetRet(HSetCall(hist, c, k, admitted), c, k, v, NoExpiry)

\* Set going on to its index write without c.mu.Lock()
SetLock_Skip(c) ==
    /\ call[c].pc = "set_lock"
    /\ call' = [call EXCEPT ![c].pc = "set_idx"]
    /\ UNCHANGED <<now, ttls, store, closed, mu, rpc, rnow, expired, rkey>>
    /\ UNCHANGED newVars
    /\ UNCHANGED outsideCache
    /\ UNCHANGED hist

\* c.mu.Lock()
SetLock(c) ==
    /\ call[c].pc = "set_lock"
    /\ CanLock(mu)
    /\ mu' = Lock(mu, c)
    /\ call' = [call EXCEPT ![c].pc = "set_idx"]
    /\ UNCHANGED <<now, ttls, store, closed, rpc, rnow, expired, rkey>>
    /\ UNCHANGED newVars
    /\ UNCHANGED outsideCache
    /\ UNCHANGED hist

\* c.ttls[key] = time.Now().Add(ttl); c.mu.Unlock(); return
SetIdx(c) ==
    /\ call[c].pc = "set_idx"
    /\ ttls' = TtlPut(ttls, call[c].key, now + call[c].ttl)
    /\ mu' = Unlock(mu, c)
    /\ call' = Return(c, None)
    /\ UNCHANGED <<now, store, closed, rpc, rnow, expired, rkey>>
    /\ UNCHANGED newVars
    /\ UNCHANGED outsideCache
    /\ hist' = HSetRet(hist, c, call[c].key, call[c].val, now + call[c].ttl)

\* ---------------------------------------------------------------- Clear
\* c.store.Clear()
Clear(c) ==
    /\ CanCall(c)
    /\ store' = StoreClear(store)
    /\ call' = Enter(c, "Clear", "a", "clr_lock")
    /\ UNCHANGED <<now, ttls, closed, mu, rpc, rnow, expired, rkey>>
    /\ UNCHANGED newVars
    /\ UNCHANGED outsideCache
    /\ hist' = HClrCall(hist, c)

\* c.mu.Lock()
ClrLock(c) ==
    /\ call[c].pc = "clr_lock"
    /\ CanLock(mu)
    /\ mu' = Lock(mu, c)
    /\ call' = [call EXCEPT ![c].pc = "clr_idx"]
    /\ UNCHANGED <<now, ttls, store, closed, rpc, rnow, expired, rkey>>
    /\ UNCHANGED newVars
    /\ UNCHANGED outsideCache
    /\ UNCHANGED hist

\* c.ttls = make(map[string]time.Time); c.mu.Unlock(); return
ClrIdx(c) ==
    /\ call[c].pc = "clr_idx"
    /\ ttls' = TtlReset(ttls)
    /\ mu' = Unlock(mu, c)
    /\ call' = Return(c, None)
    /\ UNCHANGED <<now, store, closed, rpc, rnow, expired, rkey>>
    /\ UNCHANGED newVars
    /\ UNCHANGED outsideCache
    /\ hist' = HClrRet(hist, c)

\* ---------------------------------------------------------------- Close
\* c.store.Close(): releases the store.  The usage contract has the owner
\* call it once, with no call in flight and none after it; the cleanup
\* goroutine is not told anything.
Close(c) ==
    /\ CanCall(c)
    /\ \A d \in Callers : call[d].pc = "idle"
    /\ closed' = TRUE
    /\ store' = StoreClear(store)
    /\ call' = [call EXCEPT ![c] = Idle]
    /\ UNCHANGED <<now, ttls, mu, rpc, rnow, expired, rkey>>
    /\ UNCHANGED newVars
    /\ UNCHANGED outsideCache
    /\ UNCHANGED hist

\* ------------------------------------------------------- cleanupExpired
\* for range ticker.C { now := time.Now()
ReaperTick ==
    /\ rpc = "wait"
    /\ rnow' = now
    /\ rpc' = "r_rlock"
    /\ UNCHANGED <<now, ttls, store, closed, mu, call, expired, rkey>>
    /\ UNCHANGED newVars
    /\ UNCHANGED outsideCache
    /\ hist' = HTick(hist)

\* c.mu.RLock()
ReaperRLock ==
    /\ rpc = "r_rlock"
    /\ CanRLock(mu)
    /\ mu' = RLock(mu, Reaper)
    /\ rpc' = "r_scan"
    /\ UNCHANGED <<now, ttls, store, closed, call, rnow, expired, rkey>>
    /\ UNCHANGED newVars
    /\ UNCHANGED outsideCache
    /\ UNCHANGED hist

\* for key, expiry := range c.ttls { if now.After(expiry) { append } }; c.mu.RUnlock()
ReaperScan ==
    /\ rpc = "r_scan"
    /\ expired' = Collect(ttls, rnow)
    /\ mu' = RUnlock(mu, Reaper)
    /\ rpc' = IF expired' = {} THEN "wait" ELSE "r_del_store"
    /\ rnow' = 0
    /\ UNCHANGED <<now, ttls, store, closed, call, rkey>>
    /\ UNCHANGED newVars
    /\ UNCHANGED outsideCache
    /\ UNCHANGED hist

\* for _, key := range expired { c.Delete(key) }: c.store.Del(key).  The list
\* is in map-iteration order, which Go leaves unspecified.
ReaperDelStore ==
    /\ rpc = "r_del_store"
    /\ \E k \in expired :
         /\ rkey' = k
         /\ store' = StoreDel(store, k)
    /\ rpc' = "r_del_lock"
    /\ UNCHANGED <<now, ttls, closed, mu, call, rnow, expired>>
    /\ UNCHANGED newVars
    /\ UNCHANGED outsideCache
    /\ UNCHANGED hist

\* c.mu.Lock()
ReaperDelLock ==
    /\ rpc = "r_del_lock"
    /\ CanLock(mu)
    /\ mu' = Lock(mu, Reaper)
    /\ rpc' = "r_del_idx"
    /\ UNCHANGED <<now, ttls, store, closed, call, rnow, expired, rkey>>
    /\ UNCHANGED newVars
    /\ UNCHANGED outsideCache
    /\ UNCHANGED hist

\* delete(c.ttls, key); c.mu.Unlock(); next key, or back to the ticker
ReaperDelIdx ==
    /\ rpc = "r_del_idx"
    /\ ttls' = TtlDelete(ttls, rkey)
    /\ mu' = Unlock(mu, Reaper)
    /\ expired' = expired \ {rkey}
    /\ rpc' = IF expired' = {} THEN "wait" ELSE "r_del_store"
    /\ rkey' = "a"
    /\ UNCHANGED <<now, store, closed, call, rnow>>
    /\ UNCHANGED newVars
    /\ UNCHANGED outsideCache
    /\ UNCHANGED hist

\* ---------------------------------------------------------------- clock
Tick ==
    /\ nstate = "ok"
    /\ now < MaxTime
    /\ now' = now + 1
    /\ UNCHANGED <<ttls, store, closed, mu, call, rpc, rnow, expired, rkey>>
    /\ UNCHANGED newVars
    /\ UNCHANGED outsideCache
    /\ hist' = HClock(hist, now + 1)

\* ---------------------------------------------------------------- Metrics
Goroutines == {"g1", "g2"}
Counters == {"toolInvocations", "resourceReads", "cacheHits", "cacheMisses", "errors"}
Methods == {"IncrementToolInvocations", "IncrementResourceReads",
            "IncrementCacheHits", "IncrementCacheMisses", "IncrementErrors"}

\* a method that counts on a neighbouring counter
CounterOf_Swapped(m) ==
    CASE m = "IncrementToolInvocations" -> "toolInvocations"
      [] m = "IncrementResourceReads" -> "resourceReads"
      [] m = "IncrementCacheHits" -> "cacheHits"
      [] m = "IncrementCacheMisses" -> "cacheHits"
      [] OTHER -> "errors"

\* the counter each Increment* method adds to
CounterOf(m) ==
    CASE m = "IncrementToolInvocations" -> "toolInvocations"
      [] m = "IncrementResourceReads" -> "resourceReads"
      [] m = "IncrementCacheHits" -> "cacheHits"
      [] m = "IncrementCacheMisses" -> "cacheMisses"
      [] OTHER -> "errors"

\* atomic.Int64.Add(1)
AtomicAdd(cs, ctr) == [cs EXCEPT ![ctr] = @ + 1]

\* the order in which Snapshot loads the counters
LoadOrder == <<"cacheHits", "cacheMisses", "toolInvocations", "resourceReads", "errors">>

\* the MetricsSnapshot field each counter is copied to
SnapField(ctr) ==
    CASE ctr = "toolInvocations" -> "ToolInvocations"
      [] ctr = "resourceReads" -> "ResourceReads"
      [] ctr = "cacheHits" -> "CacheHits"
      [] ctr = "cacheMisses" -> "CacheMisses"
      [] OTHER -> "Errors"

\* hitRate: hits / (hits + misses) as a fraction, 0 without cache accesses
HitRate(hits, misses) ==
    IF hits + misses > 0 THEN <<hits, hits + misses>> ELSE <<0, 1>>

NoSnapshot == [ToolInvocations |-> 0, ResourceReads |-> 0, CacheHits |-> 0,
               CacheMisses |-> 0, CacheHitRate |-> <<0, 1>>, Errors |-> 0]

\* positions of Snapshot: not running, returned
SnapIdle == 0
SnapDone == Len(LoadOrder) + 1

\* newMetrics()
MetricsInit ==
    /\ counters = [ctr \in Counters |-> 0]
    /\ gpc = [g \in Goroutines |-> "idle"]
    /\ spc = SnapIdle
    /\ snap = NoSnapshot
    /\ issued = [m \in Methods |-> 0]
    /\ cand = {}
    /\ squiet = FALSE

\* the values Snapshot has loaded so far
Loaded == IF spc \in 1..Len(LoadOrder) THEN {LoadOrder[i] : i \in 1..(spc - 1)} ELSE {}

\* valuation v agrees with what Snapshot has loaded so far
Agrees(v) == \A ctr \in Loaded : v[ctr] = snap[SnapField(ctr)]

\* goroutine g calls m.Increment*()
IncCall(g, m) ==
    /\ gpc[g] = "idle"
    /\ issued["IncrementToolInvocations"] + issued["IncrementResourceReads"]
         + issued["IncrementCacheHits"] + issued["IncrementCacheMisses"]
         + issued["IncrementErrors"] < MaxIncs
    /\ gpc' = [gpc EXCEPT ![g] = m]
    /\ issued' = [issued EXCEPT ![m] = @ + 1]
    /\ squiet' = FALSE
    /\ UNCHANGED <<counters, spc, snap, cand>>
    /\ UNCHANGED outsideMetrics

\* m.<counter>.Add(1); return
IncAdd(g) ==
    /\ gpc[g] # "idle"
    /\ counters' = AtomicAdd(counters, CounterOf(gpc[g]))
    /\ gpc' = [gpc EXCEPT ![g] = "idle"]
    /\ cand' = IF spc \in 1..Len(LoadOrder) /\ Agrees(counters')
               THEN cand \cup {counters'} ELSE cand
    /\ UNCHANGED <<spc, snap, issued, squiet>>
    /\ UNCHANGED outsideMetrics

\* m.Snapshot() is called
SnapCall ==
    /\ spc \in {SnapIdle, SnapDone}
    /\ spc' = 1
    /\ snap' = NoSnapshot
    /\ cand' = {counters}
    /\ squiet' = \A g \in Goroutines : gpc[g] = "idle"
    /\ UNCHANGED <<counters, gpc, issued>>
    /\ UNCHANGED outsideMetrics

\* the next m.<counter>.Load(); after the last one the snapshot is returned
SnapLoad ==
    /\ spc \in 1..Len(LoadOrder)
    /\ LET ctr == LoadOrder[spc]
           val == counters[ctr]
           got == [snap EXCEPT ![SnapField(ctr)] = val]
       IN /\ snap' = IF spc = Len(LoadOrder)
                     THEN [got EXCEPT !.CacheHitRate = HitRate(got.CacheHits, got.CacheMisses)]
                     ELSE got
          /\ cand' = {v \in cand : v[ctr] = val}
    /\ spc' = IF spc = Len(LoadOrder) THEN SnapDone ELSE spc + 1
    /\ UNCHANGED <<counters, gpc, issued, squiet>>
    /\ UNCHANGED outsideMetrics

\* ------------------------------------------------------------ httpx.DoJSON
\* what one attempt meets: a transport-level failure of client.Do, or a
\* response with a status code and a body
Statuses == {200, 204, 301, 400, 429, 500, 501, 502, 503, 504, 505}
NetError == [kind |-> "net", status |-> 0, body |-> None]
Responses ==
    {NetError}
    \cup {[kind |-> "http", status |-> st, body |-> b] :
             st \in {200, 204}, b \in {"json1", "json2", "garbage"}}
    \cup {[kind |-> "http", status |-> st, body |-> "text"] : st \in Statuses \ {200, 204}}
NoResponse == [kind |-> None, status |-> 0, body |-> None]

\* a shouldRetry that leaves out 500
ShouldRetry_No500(statusCode) == statusCode \in {429, 502, 503, 504}

\* shouldRetry(statusCode)
ShouldRetry(statusCode) == statusCode \in {429, 500, 502, 503, 504}

\* json.NewDecoder(limitedReader).Decode(result): the value decoded, or None
\* for a body that is no JSON document
Decode(body) ==
    CASE body = "json1" -> "message1"
      [] body = "json2" -> "message2"
      [] OTHER -> None

\* operation(): the error it returns for response r
OperationErr(r) ==
    IF r.kind = "net" THEN "net"
    ELSE IF ShouldRetry(r.status) THEN "retryable status"
    ELSE IF r.status < 200 \/ r.status >= 300 THEN "permanent http"
    ELSE IF Decode(r.body) = None THEN "permanent json"
    ELSE "nil"

\* an operation() that wraps only the status error in backoff.Permanent
IsPermanent_StatusOnly(err) == err = "permanent http"

\* backoff.Permanent(...)
IsPermanent(err) == err \in {"permanent http", "permanent json"}

\* maxRetries := c.config.MaxRetries; if maxRetries < 0 { maxRetries = 0 }
ClampRetries(n) == IF n < 0 THEN 0 ELSE n

\* a backoff that does not look at the context
BackOffStops_NoCtx == numTries >= ClampRetries(hcfg) \/ elapsedOut

\* backoffWithContext.NextBackOff() = Stop: the context is done, the retries
\* are used up, or the elapsed time has run out
BackOffStops == cancelled \/ numTries >= ClampRetries(hcfg) \/ elapsedOut

\* the statuses the server answers to make the client retry
RetryStatuses == {429, 500, 502, 503, 504}

\* the observer's record after the server answered r:
\*   last      the answer to the last attempt
\*   prior     the answers before it: "none", "retryable" (each an http
\*             response with a status of RetryStatuses) or "other"
\*   retried   how many answers had a status of RetryStatuses
\*   afterNet  an attempt was made after one that failed at transport level
\*   late      how many times operation() was called with the context
\*             already cancelled
Answered(o, r) ==
    [last     |-> r,
     prior    |-> IF o.last = NoResponse THEN "none"
                  ELSE IF o.prior \in {"none", "retryable"}
                          /\ o.last.kind = "http" /\ o.last.status \in RetryStatuses
                       THEN "retryable"
                  ELSE "other",
     retried  |-> IF r.kind = "http" /\ r.status \in RetryStatuses
                  THEN o.retried + 1 ELSE o.retried,
     afterNet |-> o.afterNet \/ o.last.kind = "net",
     late     |-> IF cancelled THEN o.late + 1 ELSE o.late]

HttpInit ==
    /\ hpc = "idle"
    /\ attempts = 0
    /\ numTries = 0
    /\ herr = "nil"
    /\ hres = None
    /\ cancelled = FALSE
    /\ elapsedOut = FALSE
    /\ hobs = [last |-> NoResponse, prior |-> "none", retried |-> 0, afterNet |-> FALSE,
               late |-> 0]

\* c.DoJSON(ctx, req, result) is called: backoff.Retry starts
DoJSON ==
    /\ hpc = "idle"
    /\ hpc' = "op"
    /\ UNCHANGED <<hcfg, attempts, numTries, herr, hres, cancelled, elapsedOut, hobs>>
    /\ UNCHANGED outsideHttp

\* one operation(): client.Do, status check, decode; Retry returns on nil and
\* on a permanent error
Operation(r) ==
    /\ hpc = "op"
    /\ cancelled => r = NetError
    /\ attempts' = attempts + 1
    /\ herr' = OperationErr(r)
    /\ hres' = IF OperationErr(r) = "nil" THEN Decode(r.body) ELSE hres
    /\ hpc' = IF OperationErr(r) = "nil" \/ IsPermanent(OperationErr(r))
              THEN "done" ELSE "backoff"
    /\ hobs' = Answered(hobs, r)
    /\ UNCHANGED <<hcfg, numTries, cancelled, elapsedOut>>
    /\ UNCHANGED outsideHttp

\* next = b.NextBackOff(); on Stop Retry returns ctx.Err() or the last error
NextBackOff ==
    /\ hpc = "backoff"
    /\ IF BackOffStops
       THEN /\ hpc' = "done"
            /\ herr' = IF cancelled THEN "ctx" ELSE herr
            /\ UNCHANGED numTries
       ELSE /\ hpc' = "sleep"
            /\ numTries' = numTries + 1
            /\ UNCHANGED herr
    /\ UNCHANGED <<hcfg, attempts, hres, cancelled, elapsedOut, hobs>>
    /\ UNCHANGED outsideHttp

\* select { case <-ctx.Done(): return ctx.Err(); case <-t.C(): }
Sleep ==
    /\ hpc = "sleep"
    /\ \/ /\ cancelled
          /\ hpc' = "done"
          /\ herr' = "ctx"
       \/ /\ hpc' = "op"
          /\ UNCHANGED herr
    /\ UNCHANGED <<hcfg, attempts, numTries, hres, cancelled, elapsedOut, hobs>>
    /\ UNCHANGED outsideHttp

\* the request context is cancelled, or its deadline passes
Cancel ==
    /\ hpc # "done"
    /\ ~cancelled
    /\ cancelled' = TRUE
    /\ UNCHANGED <<hcfg, hpc, attempts, numTries, herr, hres, elapsedOut, hobs>>
    /\ UNCHANGED outsideHttp

\* time passes: expBackoff.MaxElapsedTime is used up
ElapsedTimeOut ==
    /\ hpc \in {"op", "backoff", "sleep"}
    /\ ~elapsedOut
    /\ elapsedOut' = TRUE
    /\ UNCHANGED <<hcfg, hpc, attempts, numTries, herr, hres, cancelled, hobs>>
    /\ UNCHANGED outsideHttp

\* httpx.DefaultConfig().MaxRetries
DefaultMaxRetries == 3

\* ------------------------------------------------ httpx Config.Validate
\* the fields Validate inspects (DisableCompression and ForceAttemptHTTP2
\* are booleans it does not look at)
HttpFields == {"DialTimeout", "TLSHandshakeTimeout", "ResponseHeaderTimeout",
               "RequestTimeout", "MaxRetries", "InitialInterval", "MaxInterval",
               "MaxResponseSize", "MaxIdleConns", "MaxIdleConnsPerHost",
               "IdleConnTimeout"}
HttpVals == {-1, 0, 1}             \* a duration, a size or a count
HttpConfigs == [HttpFields -> HttpVals]

NoError == [Err |-> "nil", Field |-> ""]
\* &ConfigError{Err: err, Field: field}
ConfigError(err, field) == [Err |-> err, Field |-> field]

\* Validate with the MaxRetries check as strict as the others (<= 0)
Validate_RetriesPositive(c) ==
    IF c.DialTimeout <= 0 THEN ConfigError("ErrInvalidTimeout", "DialTimeout")
    ELSE IF c.TLSHandshakeTimeout <= 0
         THEN ConfigError("ErrInvalidTimeout", "TLSHandshakeTimeout")
    ELSE IF c.ResponseHeaderTimeout <= 0
         THEN ConfigError("ErrInvalidTimeout", "ResponseHeaderTimeout")
    ELSE IF c.RequestTimeout <= 0
         THEN ConfigError("ErrInvalidTimeout", "RequestTimeout")
    ELSE IF c.MaxRetries <= 0
         THEN ConfigError("ErrInvalidMaxRetries", "MaxRetries")
    ELSE IF c.InitialInterval <= 0
         THEN ConfigError("ErrInvalidRetryInterval", "InitialInterval")
    ELSE IF c.MaxInterval <= 0
         THEN ConfigError("ErrInvalidRetryInterval", "MaxInterval")
    ELSE IF c.MaxResponseSize <= 0
         THEN ConfigError("ErrInvalidMaxResponseSize", "MaxResponseSize")
    ELSE IF c.MaxIdleConns <= 0
         THEN ConfigError("ErrInvalidMaxIdleConns", "MaxIdleConns")
    ELSE IF c.MaxIdleConnsPerHost <= 0
         THEN ConfigError("ErrInvalidMaxIdleConns", "MaxIdleConnsPerHost")
    ELSE IF c.IdleConnTimeout <= 0
         THEN ConfigError("ErrInvalidTimeout", "IdleConnTimeout")
    ELSE NoError

\* func (c Config) Validate() error: the checks in the order of the code
Validate(c) ==
    IF c.DialTimeout <= 0 THEN ConfigError("ErrInvalidTimeout", "DialTimeout")
    ELSE IF c.TLSHandshakeTimeout <= 0
         THEN ConfigError("ErrInvalidTimeout", "TLSHandshakeTimeout")
    ELSE IF c.ResponseHeaderTimeout <= 0
         THEN ConfigError("ErrInvalidTimeout", "ResponseHeaderTimeout")
    ELSE IF c.RequestTimeout <= 0
         THEN ConfigError("ErrInvalidTimeout", "RequestTimeout")
    ELSE IF c.MaxRetries < 0
         THEN ConfigError("ErrInvalidMaxRetries", "MaxRetries")
    ELSE IF c.InitialInterval <= 0
         THEN ConfigError("ErrInvalidRetryInterval", "InitialInterval")
    ELSE IF c.MaxInterval <= 0
         THEN ConfigError("ErrInvalidRetryInterval", "MaxInterval")
    ELSE IF c.MaxResponseSize <= 0
         THEN ConfigError("ErrInvalidMaxResponseSize", "MaxResponseSize")
    ELSE IF c.MaxIdleConns <= 0
         THEN ConfigError("ErrInvalidMaxIdleConns", "MaxIdleConns")
    ELSE IF c.MaxIdleConnsPerHost <= 0
         THEN ConfigError("ErrInvalidMaxIdleConns", "MaxIdleConnsPerHost")
    ELSE IF c.IdleConnTimeout <= 0
         THEN ConfigError("ErrInvalidTimeout", "IdleConnTimeout")
    ELSE NoError

\* httpx.DefaultConfig(): every duration, size and count positive
HttpDefaultConfig ==
    [f \in HttpFields |-> IF f = "MaxRetries" THEN DefaultMaxRetries ELSE 1]

\* a Client that httpx.New(logger) has returned
ValidateInit ==
    /\ vcfg = HttpDefaultConfig
    /\ vpc = "done"
    /\ vclient = "client"
    /\ verr = NoError

\* NewWithConfig(cfg, logger): if err := cfg.Validate(); err != nil
\* { return nil, err }; ...; return &Client{...}, nil
NewWithConfig ==
    /\ vpc = "pending"
    /\ LET err == Validate(vcfg) IN
         /\ verr' = err
         /\ vclient' = IF err # NoError THEN "nil" ELSE "client"
    /\ vpc' = "done"
    /\ UNCHANGED vcfg
    /\ UNCHANGED outsideVal

\* ------------------------------------------------------ hypermcp.Server
DefaultConfig == [MaxCost |-> 2, NumCounters |-> 2, BufferItems |-> 1]
ServerNames    == {"", "srv"}
ServerVersions == {"", "1.0"}
\* Config.HTTPConfig: nil, a valid *httpx.Config, or one Validate rejects
HTTPConfigTags == {"nil", "ok", "bad"}
ZeroConfig == [f \in Fields |-> 0]       \* cache.Config{}
\* cache.Config{MaxCost: 1024, NumCounters: 100, BufferItems: 1}
NoopConfig == [f \in Fields |-> 1]
ServerConfigs ==
    [Name : ServerNames, Version : ServerVersions, CacheEnabled : BOOLEAN,
     HTTPConfig : HTTPConfigTags, CacheConfig : {DefaultConfig, ZeroConfig}]

\* *cfg.HTTPConfig, or DefaultConfig() when httpx.New is called
HTTPConfigOf(tag) ==
    IF tag = "bad" THEN [HttpDefaultConfig EXCEPT !.DialTimeout = 0]
    ELSE HttpDefaultConfig

\* Validate with the two checks in the other order
ServerValidate_VersionFirst(c) ==
    IF c.Version = "" THEN ConfigError("cannot be empty", "Version")
    ELSE IF c.Name = "" THEN ConfigError("cannot be empty", "Name")
    ELSE NoError

\* func (c Config) Validate() error
ServerValidate(c) ==
    IF c.Name = "" THEN ConfigError("cannot be empty", "Name")
    ELSE IF c.Version = "" THEN ConfigError("cannot be empty", "Version")
    ELSE NoError

TransportStdio          == "stdio"
TransportStreamableHTTP == "streamable-http"
TransportTypes == {TransportStdio, TransportStreamableHTTP, "unknown", ""}

\* the switch with streamable HTTP given a transport too
SelectTransport_HTTPRuns(t) ==
    CASE t = TransportStdio -> "nil"
      [] t = TransportStreamableHTTP -> "nil"
      [] OTHER -> "unknown transport type"

\* switch transportType { ... }: the error it returns, "nil" when it
\* falls through with a transport
SelectTransport(t) ==
    CASE t = TransportStdio -> "nil"
      [] t = TransportStreamableHTTP -> "ErrTransportNotSupported"
      [] OTHER -> "unknown transport type"

\* ctx.Err() ignored
CtxErr_Nil(done) == "nil"

\* ctx.Err()
CtxErr(done) == IF done THEN "ctx" ELSE "nil"

ServerInit ==
    /\ scfg = [Name |-> "srv", Version |-> "1.0", CacheEnabled |-> TRUE,
               HTTPConfig |-> "nil", CacheConfig |-> DefaultConfig]
    /\ sstate = "pending"
    /\ serr = NoError
    /\ made = {}
    /\ toolCount = 0
    /\ resourceCount = 0
    /\ shpc = "idle"
    /\ ctxDone = FALSE
    /\ shret = "none"
    /\ tret = "none"
    /\ sobs = [tool |-> 0, res |-> 0, tmpl |-> 0, shutdowns |-> 0, logs |-> 0,
               closes |-> 0, liveAtCall |-> TRUE, ttype |-> "", runs |-> 0,
               touched |-> FALSE]

\* New(cfg, logger): Validate, then the http client, the cache (cache.New
\* starts cleanupExpired), the mcp server and the Server itself
NewServer ==
    /\ sstate = "pending"
    /\ \E accept \in BOOLEAN :
         LET verror == ServerValidate(scfg)
             herror == Validate(HTTPConfigOf(scfg.HTTPConfig))
             ccfg   == IF scfg.CacheEnabled THEN scfg.CacheConfig ELSE NoopConfig
             cerror == NewCache(ccfg, accept)
         IN
         IF verror # NoError
         THEN /\ serr' = ConfigError("ErrInvalidConfig", verror.Field)
              /\ sstate' = "err"
              /\ made' = {}
              /\ UNCHANGED <<cfg, nstate, nerr, rpc>>
         ELSE IF herror # NoError
         THEN /\ serr' = herror
              /\ sstate' = "err"
              /\ made' = {}
              /\ UNCHANGED <<cfg, nstate, nerr, rpc>>
         ELSE IF scfg.CacheEnabled /\ cerror # "nil"
         THEN /\ serr' = ConfigError(cerror, "")
              /\ sstate' = "err"
              /\ made' = {"http"}
              /\ cfg' = ccfg
              /\ nstate' = "err"
              /\ nerr' = cerror
              /\ UNCHANGED rpc
         ELSE /\ serr' = NoError
              /\ sstate' = "ok"
              /\ made' = {"http", "cache", "mcp"}
              /\ cfg' = ccfg
              /\ nstate' = "ok"
              /\ nerr' = "nil"
              /\ rpc' = "wait"
    /\ UNCHANGED <<now, ttls, store, closed, mu, call, rnow, expired, rkey, hist>>
    /\ UNCHANGED <<scfg, toolCount, resourceCount, shpc, ctxDone, shret, tret, sobs>>
    /\ UNCHANGED outsideSrv

\* s.resourceCount++ applied to the tool counter
IncrementResourceCount_Tool ==
    /\ toolCount' = toolCount + 1
    /\ UNCHANGED resourceCount

\* func (s *Server) IncrementResourceCount() { s.resourceCount++ }
IncrementResourceCount ==
    /\ resourceCount' = resourceCount + 1
    /\ UNCHANGED toolCount

\* func (s *Server) IncrementToolCount() { s.toolCount++ }
IncrementToolCount ==
    /\ toolCount' = toolCount + 1
    /\ UNCHANGED resourceCount

Registered == sobs.tool + sobs.res + sobs.tmpl

\* AddTool(s, tool, handler): mcp.AddTool(s.mcp, tool, handler); s.IncrementToolCount()
AddTool ==
    /\ sstate = "ok"
    /\ Registered < MaxRegs
    /\ IncrementToolCount
    /\ sobs' = [sobs EXCEPT !.tool = @ + 1]
    /\ UNCHANGED <<scfg, sstate, serr, made, shpc, ctxDone, shret, tret>>
    /\ UNCHANGED <<cacheVars, newVars, outsideSrv>>

\* s.AddResource(resource, handler): s.mcp.AddResource(...); s.IncrementResourceCount()
AddResource ==
    /\ sstate = "ok"
    /\ Registered < MaxRegs
    /\ IncrementResourceCount
    /\ sobs' = [sobs EXCEPT !.res = @ + 1]
    /\ UNCHANGED <<scfg, sstate, serr, made, shpc, ctxDone, shret, tret>>
    /\ UNCHANGED <<cacheVars, newVars, outsideSrv>>

\* s.AddResourceTemplate(template, handler): s.mcp.AddResourceTemplate(...);
\* s.IncrementResourceCount()
AddResourceTemplate ==
    /\ sstate = "ok"
    /\ Registered < MaxRegs
    /\ IncrementResourceCount
    /\ sobs' = [sobs EXCEPT !.tmpl = @ + 1]
    /\ UNCHANGED <<scfg, sstate, serr, made, shpc, ctxDone, shret, tret>>
    /\ UNCHANGED <<cacheVars, newVars, outsideSrv>>

\* s.Shutdown(ctx) is called: s.logger.Info("shutting down server");
\* s.LogRegistrationStats()
Shutdown(done) ==
    /\ sstate = "ok"
    /\ shpc = "idle"
    /\ sobs.shutdowns < MaxShutdowns
    /\ ctxDone' = done
    /\ shpc' = "close"
    /\ sobs' = [sobs EXCEPT !.shutdowns = @ + 1, !.logs = @ + 1,
                            !.liveAtCall = ~done]
    /\ UNCHANGED <<scfg, sstate, serr, made, toolCount, resourceCount, shret, tret>>
    /\ UNCHANGED <<cacheVars, newVars, outsideSrv>>

\* if s.cache != nil { s.cache.Close() }
ShutdownClose ==
    /\ shpc = "close"
    /\ IF "cache" \in made
       THEN /\ closed' = TRUE
            /\ store' = StoreClear(store)
            /\ sobs' = [sobs EXCEPT !.closes = @ + 1]
       ELSE UNCHANGED <<closed, store, sobs>>
    /\ shpc' = "ctx"
    /\ UNCHANGED <<now, ttls, mu, call, rpc, rnow, expired, rkey, hist>>
    /\ UNCHANGED <<scfg, sstate, serr, made, toolCount, resourceCount, ctxDone,
                   shret, tret>>
    /\ UNCHANGED <<newVars, outsideSrv>>

\* if ctx.Err() != nil { return ctx.Err() }; return nil
ShutdownReturn ==
    /\ shpc = "ctx"
    /\ shret' = CtxErr(ctxDone)
    /\ shpc' = "idle"
    /\ UNCHANGED <<scfg, sstate, serr, made, toolCount, resourceCount, ctxDone,
                   tret, sobs>>
    /\ UNCHANGED <<cacheVars, newVars, outsideSrv>>

\* the context of a running Shutdown is cancelled or times out
ShutdownCancel ==
    /\ shpc # "idle"
    /\ ~ctxDone
    /\ ctxDone' = TRUE
    /\ UNCHANGED <<scfg, sstate, serr, made, toolCount, resourceCount, shpc,
                   shret, tret, sobs>>
    /\ UNCHANGED <<cacheVars, newVars, outsideSrv>>

\* RunWithTransport(ctx, srv, transportType, logger); srv is nil unless New
\* has returned one.  srv.Run blocks and then returns nil or an error; on a
\* nil srv its first statement (s.logger) panics.
RunWithTransport(t, runFails) ==
    /\ tret = "none"
    /\ LET err == SelectTransport(t) IN
         IF err # "nil"
         THEN /\ tret' = err
              /\ sobs' = [sobs EXCEPT !.ttype = t]
         ELSE IF sstate # "ok"
         THEN /\ tret' = "panic"
              /\ sobs' = [sobs EXCEPT !.ttype = t, !.touched = TRUE]
         ELSE /\ tret' = IF runFails THEN "server run failed" ELSE "nil"
              /\ sobs' = [sobs EXCEPT !.ttype = t, !.touched = TRUE,
                                      !.runs = @ + 1]
    /\ UNCHANGED <<scfg, sstate, serr, made, toolCount, resourceCount, shpc,
                   ctxDone, shret>>
    /\ UNCHANGED <<cacheVars, newVars, outsideSrv>>

\* ------------------------------------------------------- specifications

CacheInit ==
    /\ now = 0
    /\ ttls = [k \in Keys |-> NoExpiry]
    /\ store = [k \in Keys |-> None]
    /\ closed = FALSE
    /\ mu = [w |-> None, r |-> {}]
    /\ call = [c \in Callers |-> Idle]
    /\ rnow = 0
    /\ expired = {}
    /\ rkey = "a"

\* the cache after New(DefaultConfig()) has returned it
Constructed ==
    /\ cfg = DefaultConfig
    /\ nstate = "ok"
    /\ nerr = "nil"
    /\ rpc = "wait"
    /\ CacheInit
    /\ MetricsInit
    /\ HttpInit
    /\ ValidateInit
    /\ ServerInit

Init        == Constructed /\ hist = HistInit("set") /\ hcfg = DefaultMaxRetries
InitDel     == Constructed /\ hist = HistInit("del") /\ hcfg = DefaultMaxRetries
InitReap    == Constructed /\ hist = HistInit("reap") /\ hcfg = DefaultMaxRetries
InitIdx     == Constructed /\ hist = HistInit("idx") /\ hcfg = DefaultMaxRetries

\* an httpx Client built by NewWithConfig: Validate has let MaxRetries >= 0 pass
InitHttp    == Constructed /\ hist = HistInit("set") /\ hcfg \in 0..MaxRetriesLimit

\* before New, for any sizing parameters
InitNew ==
    /\ cfg \in [Fields -> CfgVals]
    /\ nstate = "pending"
    /\ nerr = "nil"
    /\ rpc = "off"
    /\ CacheInit
    /\ MetricsInit
    /\ HttpInit
    /\ ValidateInit
    /\ ServerInit
    /\ hcfg = DefaultMaxRetries
    /\ hist = HistInit("set")

\* the steps inside a call, and the cleanup goroutine
GetStep(c) == GetRead(c) \/ GetCheck(c) \/ GetStore(c)
DelStep(c) == DelStore(c) \/ DelLock(c) \/ DelIdx(c)
SetStep(c) == SetLock(c) \/ SetIdx(c)
ClrStep(c) == ClrLock(c) \/ ClrIdx(c)
CallStep(c) == GetStep(c) \/ DelStep(c) \/ SetStep(c) \/ ClrStep(c)

ReaperStep ==
    \/ ReaperTick
    \/ ReaperRLock
    \/ ReaperScan
    \/ ReaperDelStore
    \/ ReaperDelLock
    \/ ReaperDelIdx

\* Spec: both callers issue every operation on one shared key
SharedKeys == {"a"}

Next ==
    \/ \E c \in Callers, k \in SharedKeys : Get(c, k)
    \/ \E c \in Callers, k \in SharedKeys : Delete(c, k)
    \/ \E c \in Callers, k \in SharedKeys, v \in Vals, d \in TTLs, adm \in BOOLEAN :
          Set(c, k, v, d, adm)
    \/ \E c \in Callers : Clear(c)
    \/ \E c \in Callers : Close(c)
    \/ \E c \in Callers : CallStep(c)
    \/ ReaperStep
    \/ Tick

Spec == Init /\ [][Next]_vars

\* the same program under the other observers
SpecDel  == InitDel /\ [][Next]_vars
SpecReap == InitReap /\ [][Next]_vars
SpecIdx  == InitIdx /\ [][Next]_vars

\* SpecWriters: concurrent writers, each issuing Set on its own exclusive key
\* while the cleanup goroutine runs; once all writers have finished, the keys
\* are read back
OwnKeys == [c \in Callers |-> IF c = "c1" THEN {"a"} ELSE {"b"}]

Writing == \A c \in Callers : call[c].op # "Get"

NextWriters ==
    \/ \E c \in Callers : \E k \in OwnKeys[c], v \in Vals, d \in TTLs, adm \in BOOLEAN :
          Writing /\ Set(c, k, v, d, adm)
    \/ \E c \in Callers : \E k \in OwnKeys[c] : ~SetInFlight /\ Get(c, k)
    \/ \E c \in Callers : GetStep(c)
    \/ \E c \in Callers : DelStep(c)
    \/ \E c \in Callers : SetStep(c)
    \/ ReaperStep
    \/ Tick

SpecWriters == Init /\ [][NextWriters]_vars

\* SpecKeys: one caller issues every operation over all the keys
NextKeys ==
    \/ \E k \in Keys : Get("c1", k)
    \/ \E k \in Keys : Delete("c1", k)
    \/ \E k \in Keys, v \in Vals, d \in TTLs, adm \in BOOLEAN : Set("c1", k, v, d, adm)
    \/ Clear("c1")
    \/ Close("c1")
    \/ CallStep("c1")
    \/ ReaperStep
    \/ Tick

SpecKeys == InitDel /\ [][NextKeys]_vars

\* SpecPair: both callers Set the shared key with a positive ttl, the store
\* admitting every value, while time passes
InitPair == Constructed /\ hist = HistInit("pair") /\ hcfg = DefaultMaxRetries

NextPair ==
    \/ \E c \in Callers, k \in SharedKeys, v \in Vals, d \in {t \in TTLs : t > 0} :
          Set(c, k, v, d, TRUE)
    \/ \E c \in Callers : SetStep(c)
    \/ Tick

SpecPair == InitPair /\ [][NextPair]_vars

\* SpecPerm: one caller issues every operation over all the keys, and sets
\* the keys of PermKeys only without a ttl
PermKeys == {"b"}

NextPerm ==
    \/ \E k \in Keys : Get("c1", k)
    \/ \E k \in Keys : Delete("c1", k)
    \/ \E k \in Keys \ PermKeys, v \in Vals, d \in TTLs, adm \in BOOLEAN :
          Set("c1", k, v, d, adm)
    \/ \E k \in PermKeys, v \in Vals, d \in {t \in TTLs : t <= 0}, adm \in BOOLEAN :
          Set("c1", k, v, d, adm)
    \/ Clear("c1")
    \/ Close("c1")
    \/ CallStep("c1")
    \/ ReaperStep
    \/ Tick

SpecPerm == Init /\ [][NextPerm]_vars

\* SpecMetrics: goroutines increment the counters of one Metrics while
\* snapshots are taken
NextMetrics ==
    \/ \E g \in Goroutines, m \in Methods : IncCall(g, m)
    \/ \E g \in Goroutines : IncAdd(g)
    \/ SnapCall
    \/ SnapLoad

SpecMetrics == Init /\ [][NextMetrics]_vars

\* SpecHttp: one DoJSON call against a server that answers anything
NextHttp ==
    \/ DoJSON
    \/ \E r \in Responses : Operation(r)
    \/ NextBackOff
    \/ Sleep
    \/ Cancel
    \/ ElapsedTimeOut

SpecHttp == InitHttp /\ [][NextHttp]_vars

\* SpecHttpLive: the same call, where every step of backoff.Retry that can be
\* taken is taken: client.Do returns (the http.Client has a Timeout and the
\* request carries the context), NextBackOff returns, and the timer fires or
\* the context is done
FairnessHttp ==
    /\ WF_vars(\E r \in Responses : Operation(r))
    /\ WF_vars(NextBackOff)
    /\ WF_vars(Sleep)

SpecHttpLive == InitHttp /\ [][NextHttp]_vars /\ FairnessHttp

NextNew == New

SpecNew == InitNew /\ [][NextNew]_vars

\* SpecLive: callers issue operations on the shared key until the clock
\* reaches MaxTime, the cleanup goroutine ticks for ever.  Time passes and
\* every goroutine that can run does run (weak fairness); a goroutine
\* blocked in mu.Lock() or mu.RLock() gets the lock if it is free again and
\* again (strong fairness: sync.RWMutex queues its waiters).
NextLive ==
    \/ now < MaxTime /\ \E c \in Callers, k \in SharedKeys : Get(c, k)
    \/ now < MaxTime /\ \E c \in Callers, k \in SharedKeys : Delete(c, k)
    \/ now < MaxTime /\ \E c \in Callers, k \in SharedKeys, d \in TTLs :
                            Set(c, k, "v1", d, TRUE)
    \/ now < MaxTime /\ \E c \in Callers : Clear(c)
    \/ \E c \in Callers : CallStep(c)
    \/ ReaperStep
    \/ Tick

Fairness ==
    /\ WF_vars(Tick)
    /\ \A c \in Callers :
          /\ WF_vars(GetStep(c) \/ DelStore(c) \/ DelIdx(c) \/ SetIdx(c) \/ ClrIdx(c))
          /\ SF_vars(DelLock(c) \/ SetLock(c) \/ ClrLock(c))
    /\ WF_vars(ReaperScan \/ ReaperDelStore \/ ReaperDelIdx)
    /\ SF_vars(ReaperRLock \/ ReaperDelLock)

InitLive == Constructed /\ hist = HistInit("off") /\ hcfg = DefaultMaxRetries

SpecLive == InitLive /\ [][NextLive]_vars /\ Fairness

\* SpecValidate: NewWithConfig applied to any Config
InitValidate ==
    /\ cfg = DefaultConfig
    /\ nstate = "ok"
    /\ nerr = "nil"
    /\ rpc = "wait"
    /\ CacheInit
    /\ MetricsInit
    /\ HttpInit
    /\ ServerInit
    /\ hist = HistInit("set")
    /\ hcfg = DefaultMaxRetries
    /\ vcfg \in HttpConfigs
    /\ vpc = "pending"
    /\ vclient = "nil"
    /\ verr = NoError

NextValidate == NewWithConfig

SpecValidate == InitValidate /\ [][NextValidate]_vars

\* SpecServer: New applied to any Config, then registrations, Shutdown
\* calls and one RunWithTransport call
InitServer ==
    /\ cfg = DefaultConfig
    /\ nstate = "pending"
    /\ nerr = "nil"
    /\ rpc = "off"
    /\ CacheInit
    /\ MetricsInit
    /\ HttpInit
    /\ ValidateInit
    /\ hist = HistInit("set")
    /\ hcfg = DefaultMaxRetries
    /\ scfg \in ServerConfigs
    /\ sstate = "pending"
    /\ serr = NoError
    /\ made = {}
    /\ toolCount = 0
    /\ resourceCount = 0
    /\ shpc = "idle"
    /\ ctxDone = FALSE
    /\ shret = "none"
    /\ tret = "none"
    /\ sobs = [tool |-> 0, res |-> 0, tmpl |-> 0, shutdowns |-> 0, logs |-> 0,
               closes |-> 0, liveAtCall |-> TRUE, ttype |-> "", runs |-> 0,
               touched |-> FALSE]

NextServer ==
    \/ NewServer
    \/ AddTool
    \/ AddResource
    \/ AddResourceTemplate
    \/ \E done \in BOOLEAN : Shutdown(done)
    \/ ShutdownClose
    \/ ShutdownReturn
    \/ ShutdownCancel
    \/ \E t \in TransportTypes, runFails \in BOOLEAN : RunWithTransport(t, runFails)

SpecServer == InitServer /\ [][NextServer]_vars

\* ======================================================================
\* Claims
\* ======================================================================

\* the Get record of caller c: the call has returned
Got(c) == call[c].pc = "idle" /\ call[c].op = "Get"

\* C1 (round trip): after Set(k, v, ttl > 0) has returned with the value
\* admitted, and no caller's Delete(k), Clear() or other Set(k) overlaps or
\* follows it, every Get(k) issued afterwards that returns before the
\* recorded expiry returns (v, true).
C1_RoundTrip ==
    \A c \in Callers :
        LET k == call[c].key IN
        ( /\ Got(c)
          /\ "cov" \in hist.gcov[c]
          /\ hist.last[k].v \in Vals
          /\ hist.last[k].e # NoExpiry
          /\ hist.undel[k]
          /\ now < hist.last[k].e )
        => call[c].res = hist.last[k].v

\* C2 (expiration): after Set(k, v, ttl > 0) has returned, with no other
\* Set(k) overlapping or following it, every Get(k) issued once the clock has
\* passed the recorded expiry returns (nil, false).
C2_Expiration ==
    \A c \in Callers :
        (Got(c) /\ "late" \in hist.gcov[c]) => call[c].res = None

\* C3 (deletion overrides TTL): Set(k, v, ttl), for any ttl, followed by
\* Delete(k) followed by Get(k), with no Set(k) in between, returns
\* (nil, false).
C3_DeleteOverridesTTL ==
    \A c \in Callers :
        (Got(c) /\ "del" \in hist.gcov[c]) => call[c].res = None

\* a Get that followed a Delete which found the key stored, and missed
C3_Witness ==
    \E c \in Callers :
        Got(c) /\ "delhit" \in hist.gcov[c] /\ call[c].res = None

\* C4 (Clear wipes everything): after Set on distinct keys followed by
\* Clear(), with no Set in between or after, Get on every one of those keys
\* returns (nil, false) and the TTL index is empty.
C4_ClearWipes ==
    /\ \A c \in Callers :
           (Got(c) /\ "clr" \in hist.gcov[c]) => call[c].res = None
    /\ hist.clrOk # No => \A k \in Keys : ttls[k] = NoExpiry

\* a Get that followed a Clear which found every key stored, and missed
C4_Witness ==
    \E c \in Callers :
        /\ Got(c) /\ "clrall" \in hist.gcov[c] /\ call[c].res = None
        /\ hist.clrOk = "all"

\* the error kinds the configuration check is to report, by field
ErrInvalid == [f \in Fields |->
                 CASE f = "MaxCost" -> "ErrInvalidMaxCost"
                   [] f = "NumCounters" -> "ErrInvalidNumCounters"
                   [] OTHER -> "ErrInvalidBufferItems"]

\* C5 (config validation): New with MaxCost <= 0 fails with an error that
\* identifies MaxCost, with NumCounters <= 0 one that identifies NumCounters,
\* with BufferItems <= 0 one that identifies BufferItems (stated for a config
\* with one offending field); a config with all three positive is accepted.
C5_ConfigValidation ==
    nstate # "pending" =>
        /\ \A f \in Fields :
               (cfg[f] <= 0 /\ \A g \in Fields \ {f} : cfg[g] > 0)
               => (nstate = "err" /\ nerr = ErrInvalid[f])
        /\ (\A f \in Fields : cfg[f] > 0) => (nstate = "ok" /\ nerr = "nil")

\* C6 (construction fails atomically): New with any non-positive sizing
\* parameter returns a nil cache and an error, and then no store has been
\* constructed and no cleanup goroutine started.
C6_AtomicFailure ==
    (nstate # "pending" /\ \E f \in Fields : cfg[f] <= 0)
    => (nstate = "err" /\ nerr # "nil" /\ rpc = "off")

\* C7 (concurrent disjoint-key safety): with concurrent writers, each issuing
\* Set only on its own key while the cleanup goroutine runs, once all writers
\* have finished Get(k) returns the value of the last Set on k, provided the
\* store admitted it and its ttl has not elapsed.
C7_DisjointWriters ==
    \A c \in Callers :
        LET k == call[c].key IN
        ( /\ Got(c)
          /\ {"cov", "quiet"} \subseteq hist.gcov[c]
          /\ hist.last[k].v \in Vals
          /\ (hist.last[k].e = NoExpiry \/ now < hist.last[k].e) )
        => call[c].res = hist.last[k].v

\* C8 (background convergence): a key Set with ttl > 0 and not read, set or
\* deleted again by any caller is, while the cache is not closed, absent from
\* the TTL index and from the store by the end of the first tick of the
\* cleanup goroutine that starts after its expiry.
C8_BackgroundConvergence ==
    \A k \in Keys :
        (rpc = "wait" /\ k \in hist.rcov /\ ~closed)
        => (ttls[k] = NoExpiry /\ store[k] = None)

\* a tick that began after the expiry of an untouched key has ended
C8_Witness == rpc = "wait" /\ hist.rcov # {} /\ ~closed

\* the cleanup goroutine acquires the index lock, or deletes from the store
ReaperActs == ReaperRLock \/ ReaperDelLock \/ ReaperDelStore

\* C9 (Close stops the Reaper): after Close() has returned, the cleanup
\* goroutine never again acquires the index lock and never again issues a
\* Delete against the store.
C9_CloseStopsReaper == [][closed => ~ReaperActs]_vars

\* C10: when Delete(k) returns neither the TTL index nor the store holds k,
\* and when Clear() returns both are empty, in every interleaving with Gets
\* and ticks of the cleanup goroutine, no Set on the affected keys overlapping.
C10_NothingLeft ==
    /\ \A k \in Keys :
           hist.delOk[k] # No => (ttls[k] = NoExpiry /\ store[k] = None)
    /\ hist.clrOk # No => \A k \in Keys : ttls[k] = NoExpiry /\ store[k] = None

\* a Delete and a Clear, each of which found the key held, have returned
C10_Witness == hist.delOk["a"] = "hit" /\ hist.clrOk = "hit"
\* caller c's Delete has removed the key from the store and not yet from the
\* TTL index
Between(c) == call[c].op = "Delete" /\ call[c].pc \in {"del_lock", "del_idx"}

\* a step of caller d that reads or writes the store or the TTL index
Touches(d) ==
    \/ GetRead(d) \/ GetStore(d) \/ DelStore(d) \/ DelIdx(d) \/ SetIdx(d) \/ ClrIdx(d)
    \/ \E k \in Keys : Delete(d, k)
    \/ \E k \in Keys, v \in Vals, t \in TTLs, adm \in BOOLEAN : Set(d, k, v, t, adm)
    \/ Clear(d)

\* such a step of the cleanup goroutine
ReaperTouches == ReaperScan \/ ReaperDelStore \/ ReaperDelIdx

\* C11 (Delete is atomic): Delete removes the store entry and the TTL index
\* entry in one critical section: between its two removals no Get, Set,
\* Delete or Clear of another caller and no step of the cleanup goroutine
\* reads or writes the store or the index.
C11_DeleteAtomic ==
    [][\A c \in Callers :
          Between(c) => ~(ReaperTouches \/ \E d \in Callers \ {c} : Touches(d))]_vars

\* C12 (Set without ttl clears the index entry): after Set(k, v, ttl) with
\* ttl <= 0 has returned, and until the next Set of k, the TTL index holds no
\* entry for k, also when an earlier Set gave k a positive ttl.
C12_NoTtlNoEntry ==
    \A k \in Keys :
        (hist.last[k] # NoSet /\ hist.last[k].e = NoExpiry) => ttls[k] = NoExpiry

\* C13 (one expiry per key, overwritten by Set): after Set(k, v, ttl) with
\* ttl > 0 has returned, no other Set of k concurrent with it and no Delete or
\* Clear since, the index entry of k is that call's now + ttl until that
\* expiry: a key Set again is live until the new expiry.
C13_SetOverwrites ==
    \A k \in Keys :
        ( /\ hist.last[k] # NoSet
          /\ hist.last[k].e # NoExpiry
          /\ hist.undel[k]
          /\ now < hist.last[k].e )
        => ttls[k] = hist.last[k].e

\* C14 (expiry boundary): whenever the TTL index holds an expiry <= now for
\* k, the instant expiry = now included, Get(k) returns (nil, false), even if
\* the store still holds k.
C14_ExpiryBoundary ==
    \A c \in Callers : (Got(c) /\ "due" \in hist.gcov[c]) => call[c].res = None

\* C15 (no index entry, no expiry): a key only ever Set with ttl <= 0 has no
\* TTL index entry, and once a Set of it was admitted, with no Delete or
\* Clear since, the store holds its value and Get returns it, whatever time
\* has passed and whatever the cleanup goroutine has done.
C15_NeverExpires ==
    \A k \in PermKeys :
        /\ ttls[k] = NoExpiry
        /\ (hist.last[k].v \in Vals /\ hist.undel[k] /\ ~closed) =>
              /\ store[k] = hist.last[k].v
              /\ \A c \in Callers :
                     (Got(c) /\ call[c].key = k /\ "cov" \in hist.gcov[c])
                     => call[c].res = hist.last[k].v

\* a Get found such a key at the end of the clock's range, after another key
\* had expired and been removed
C15_Witness ==
    \E k \in PermKeys :
        /\ Got("c1") /\ call["c1"].key = k /\ "cov" \in hist.gcov["c1"]
        /\ hist.undel[k] /\ call["c1"].res \in Vals
        /\ now = MaxTime
        /\ hist.last["a"].e # NoExpiry /\ ttls["a"] = NoExpiry /\ hist.undel["a"]

\* C16 (no lost update): once all Increment* calls have returned, a Snapshot
\* reports for each counter exactly the number of increments issued on it
\* (so an increment of one counter never changes another).
C16_NoLostUpdate ==
    (spc = SnapDone /\ squiet) =>
        /\ snap.ToolInvocations = issued["IncrementToolInvocations"]
        /\ snap.ResourceReads = issued["IncrementResourceReads"]
        /\ snap.CacheHits = issued["IncrementCacheHits"]
        /\ snap.CacheMisses = issued["IncrementCacheMisses"]
        /\ snap.Errors = issued["IncrementErrors"]

\* a snapshot taken after increments of two different counters had returned
C16_Witness ==
    /\ spc = SnapDone /\ squiet
    /\ issued["IncrementCacheMisses"] >= 1 /\ issued["IncrementErrors"] >= 2
    /\ snap.CacheMisses >= 1 /\ snap.Errors >= 2

\* C17 (point-in-time snapshot): for every Snapshot there is an instant
\* between its call and its return at which all five counters held exactly
\* the values it reports.
C17_PointInTime == spc = SnapDone => cand # {}

\* the statuses DoJSON documents as retryable: 429 and the range 500-504
DocRetryable(st) == st = 429 \/ st \in 500..504

\* C18 (retryable statuses): DoJSON treats a non-2xx response as retryable
\* exactly when its status is 429 or one of 500..504; every other non-2xx
\* status ends the call after that attempt with a permanent error.
C18_RetryableStatuses ==
    LET r == hobs.last IN
    (r.kind = "http" /\ (r.status < 200 \/ r.status >= 300)) =>
        /\ DocRetryable(r.status) => herr # "permanent http"
        /\ ~DocRetryable(r.status) => (hpc = "done" /\ herr = "permanent http")

\* C19 (network errors are not retried): when client.Do fails at transport
\* level, DoJSON returns that error without making any further attempt.
C19_NetworkErrorsFinal ==
    /\ ~hobs.afterNet
    /\ (hobs.last.kind = "net" /\ hpc = "done" /\ ~cancelled) => herr = "net"

\* C20 (retry until success): if the server answers the first k attempts,
\* k <= MaxRetries, with a retryable status and then with a 2xx valid JSON
\* body, the context not cancelled and the elapsed-time limit not reached,
\* DoJSON returns nil after exactly k + 1 attempts with the result decoded
\* from the last response; it does not give up while retries are left.
C20_RetryUntilSuccess ==
    LET r == hobs.last IN
    (hpc = "done" /\ ~cancelled /\ ~elapsedOut /\ hobs.prior \in {"none", "retryable"}) =>
        /\ attempts <= hcfg + 1
        /\ (r.kind = "http" /\ r.status \in RetryStatuses) => attempts = hcfg + 1
        /\ (r.kind = "http" /\ r.status \in 200..299 /\ r.body \in {"json1", "json2"}) =>
              /\ herr = "nil"
              /\ attempts = hobs.retried + 1
              /\ hres = IF r.body = "json1" THEN "message1" ELSE "message2"

\* success on the last attempt the configuration allows
C20_Witness ==
    /\ hpc = "done" /\ ~cancelled /\ ~elapsedOut
    /\ hobs.prior = "retryable" /\ hobs.retried = hcfg /\ hcfg >= 2
    /\ herr = "nil" /\ hres = "message2" /\ attempts = hcfg + 1

\* C21 as stated (cancellation ends DoJSON): if the request context is
\* cancelled before an attempt has succeeded, DoJSON returns a non-nil error
\* and starts no new attempt after the cancellation.
C21_NoLateAttempt ==
    /\ (cancelled /\ hpc = "done") => herr # "nil"
    /\ hobs.late = 0

\* C21 as amended: if the request context is cancelled before an attempt has
\* succeeded, DoJSON returns a non-nil error, and after the cancellation no
\* request is answered any more: at most one operation() is still called,
\* and it fails at once.
C21_CancelEnds ==
    /\ (cancelled /\ hpc = "done") => herr # "nil"
    /\ hobs.late <= 1
    /\ (hobs.late > 0 /\ hpc \in {"backoff", "done"}) => hobs.last = NetError

\* a call cancelled while it waited to retry has returned the context's error
C21_Witness ==
    /\ cancelled /\ hpc = "done" /\ herr = "ctx"
    /\ hobs.prior = "retryable" /\ attempts >= 2 /\ attempts <= hcfg

\* The documented check order of the httpx Config fields, and what makes a
\* field offend: MaxRetries when negative, every other field when not positive.
DocCheckOrder == <<"DialTimeout", "TLSHandshakeTimeout", "ResponseHeaderTimeout",
                   "RequestTimeout", "MaxRetries", "InitialInterval", "MaxInterval",
                   "MaxResponseSize", "MaxIdleConns", "MaxIdleConnsPerHost",
                   "IdleConnTimeout">>
DocOffends(c, f) == IF f = "MaxRetries" THEN c[f] < 0 ELSE c[f] <= 0
DocSentinel(f) ==
    CASE f \in {"DialTimeout", "TLSHandshakeTimeout", "ResponseHeaderTimeout",
                "RequestTimeout", "IdleConnTimeout"} -> "ErrInvalidTimeout"
      [] f = "MaxRetries" -> "ErrInvalidMaxRetries"
      [] f \in {"InitialInterval", "MaxInterval"} -> "ErrInvalidRetryInterval"
      [] f = "MaxResponseSize" -> "ErrInvalidMaxResponseSize"
      [] f \in {"MaxIdleConns", "MaxIdleConnsPerHost"} -> "ErrInvalidMaxIdleConns"
DocFirstOffender(c) ==
    LET i == CHOOSE j \in 1..Len(DocCheckOrder) :
                 /\ DocOffends(c, DocCheckOrder[j])
                 /\ \A h \in 1..(j - 1) : ~DocOffends(c, DocCheckOrder[h])
    IN DocCheckOrder[i]

\* C22: once NewWithConfig has returned, its error is nil exactly when no
\* field of the Config offends (every duration, size and count > 0 and
\* MaxRetries >= 0), and then a client is returned; otherwise the client is
\* nil and the error is a ConfigError that wraps the sentinel of, and names,
\* the first offending field in the check order.
C22_ValidateContract ==
    vpc = "done" =>
        IF \A f \in HttpFields : ~DocOffends(vcfg, f)
        THEN verr = NoError /\ vclient = "client"
        ELSE /\ vclient = "nil"
             /\ verr.Field = DocFirstOffender(vcfg)
             /\ verr.Err = DocSentinel(verr.Field)

\* NewWithConfig has rejected a Config whose first offending field is not
\* the first one checked, and that has a later offender too
C22_Witness ==
    /\ vpc = "done"
    /\ vclient = "nil"
    /\ vcfg.DialTimeout > 0
    /\ vcfg.MaxRetries = -1
    /\ vcfg.MaxIdleConns = 0
    /\ verr = ConfigError("ErrInvalidMaxRetries", "MaxRetries")

C25_CtxAtCall ==
    (shpc = "idle" /\ shret # "none") =>
        /\ shret = (IF sobs.liveAtCall THEN "nil" ELSE "ctx")
        /\ sobs.logs = sobs.shutdowns
        /\ sobs.closes = sobs.shutdowns
        /\ closed

\* C25 as amended: a Shutdown that has returned returned the context's error
\* exactly when the context was cancelled by the end of the cleanup (always
\* so when it was cancelled at the call), and every call has logged the
\* statistics and closed the cache.
C25_CtxAfterCleanup ==
    (shpc = "idle" /\ shret # "none") =>
        /\ shret = (IF ctxDone THEN "ctx" ELSE "nil")
        /\ ~sobs.liveAtCall => shret = "ctx"
        /\ sobs.logs = sobs.shutdowns
        /\ sobs.closes = sobs.shutdowns
        /\ closed

\* a Shutdown whose context was cancelled during the cleanup has returned
C25_Witness ==
    /\ shpc = "idle"
    /\ shret = "ctx"
    /\ sobs.liveAtCall
    /\ closed
    /\ sobs.shutdowns = 1

\* C26: cache Close is invoked at most once over the server's lifetime,
\* however often Shutdown is called.
C26_CloseOnce == sobs.closes <= 1

\* C27: the tool count equals the number of AddTool calls and the resource
\* count the number of AddResource and AddResourceTemplate calls.
C27_RegistrationCounts ==
    /\ toolCount = sobs.tool
    /\ resourceCount = sobs.res + sobs.tmpl

\* one registration of each kind has been made
C27_Witness ==
    /\ sobs.tool = 1 /\ sobs.res = 1 /\ sobs.tmpl = 1
    /\ toolCount = 1 /\ resourceCount = 2

\* C28 (lazy deletion): once a Get(k) has returned through the Delete it
\* calls on finding an expired index entry, with no Set of k in flight when
\* the Get was invoked and none invoked since, neither the TTL index nor the
\* store holds k.
C28_LazyDeletion ==
    \A c \in Callers :
        (Got(c) /\ {"alone", "lazy"} \subseteq hist.gcov[c]) =>
            /\ ttls[call[c].key] = NoExpiry
            /\ store[call[c].key] = None

\* a Get that found an expired entry in the index has returned, no Set of
\* the key overlapping it
C28_Witness ==
    \E c \in Callers : Got(c) /\ {"due", "alone", "lazy"} \subseteq hist.gcov[c]

\* caller c's Clear has cleared the store and not yet reset the TTL index
BetweenClear(c) == call[c].op = "Clear" /\ call[c].pc \in {"clr_lock", "clr_idx"}

\* C29 (Clear is atomic): Clear clears the store and resets the TTL index in
\* one critical section: between the two no Get, Set, Delete or Clear of
\* another caller and no step of the cleanup goroutine reads or writes the
\* store or the index.
C29_ClearAtomic ==
    [][\A c \in Callers :
          BetweenClear(c) => ~(ReaperTouches \/ \E d \in Callers \ {c} : Touches(d))]_vars

\* a task that has arrived at its request for the index write lock
WantsLock(p) ==
    IF p = Reaper THEN rpc = "r_del_lock"
    ELSE call[p].pc \in {"del_lock", "set_lock", "clr_lock"}

\* C30 (no lock upgrade, no deadlock): a task that requests the index write
\* lock holds neither the read lock nor the write lock, and every request of
\* a caller or of the cleanup goroutine for the write lock, and every request
\* of the cleanup goroutine for the read lock, is eventually granted.
C30_LocksGranted ==
    /\ [](\A p \in Callers \cup {Reaper} : WantsLock(p) => p \notin mu.r /\ mu.w # p)
    /\ \A p \in Callers \cup {Reaper} : WantsLock(p) ~> mu.w = p
    /\ (rpc = "r_rlock") ~> (Reaper \in mu.r)

\* Get's lazy Delete waits for the write lock while the cleanup goroutine
\* holds the read lock
C30_Witness ==
    \E c \in Callers :
        /\ call[c].op = "Get" /\ call[c].pc = "del_lock"
        /\ Reaper \in mu.r

\* task p is at a statement that reads the TTL index
IdxReads(p) ==
    IF p = Reaper THEN rpc = "r_scan" ELSE call[p].pc = "get_read"

\* task p is at a statement that writes the TTL index
IdxWrites(p) ==
    IF p = Reaper THEN rpc = "r_del_idx"
    ELSE call[p].pc \in {"set_idx", "del_idx", "clr_idx"}

\* C31 (index accesses are locked): a task about to write the TTL index
\* holds the write lock and a task about to read it holds the read lock, and
\* while a task is about to write the index no other task is about to read
\* or write it.
C31_IndexLocked ==
    \A p \in Callers \cup {Reaper} :
        /\ IdxReads(p) => p \in mu.r /\ mu.w = None
        /\ IdxWrites(p) =>
               /\ mu.w = p /\ mu.r = {}
               /\ \A q \in (Callers \cup {Reaper}) \ {p} : ~IdxReads(q) /\ ~IdxWrites(q)

\* a Set is about to write the index while the other caller's Delete and
\* the cleanup goroutine's scan wait for the lock
C31_Witness ==
    /\ call["c1"].pc = "set_idx"
    /\ call["c2"].pc = "del_lock"
    /\ rpc = "r_rlock"

\* a step in which some Delete(k), called by a caller, by Get or by the
\* cleanup goroutine, removes k from the store
StoreDelStep(k) ==
    \/ \E c \in Callers : Delete(c, k)
    \/ \E c \in Callers : DelStore(c) /\ call[c].key = k
    \/ ReaperDelStore /\ rkey' = k

\* a step in which some Delete(k) removes k from the TTL index
IdxDelStep(k) ==
    \/ \E c \in Callers : DelIdx(c) /\ call[c].key = k
    \/ ReaperDelIdx /\ rkey = k

C33_GetReadOnly ==
    [][\A c \in Callers :
          (call[c].op = "Get" /\ call[c].pc # "idle" /\ "fresh" \in hist.gcov[c]
             /\ CallStep(c)) =>
              /\ ttls' = ttls
              /\ store' = store
              /\ call'[c].pc = "idle" => call'[c].res = store[call[c].key]]_vars

\* the last attempt ended DoJSON's retry loop by itself: it succeeded or it
\* failed with a permanent error
Final(r) == r.kind = "http" /\ r.status \notin RetryStatuses

\* C34 (termination and attempt bound): DoJSON always terminates and makes
\* at most MaxRetries + 1 attempts per call; it stops at the first attempt
\* that succeeds and at the first attempt that ends in a permanent error (a
\* non-2xx status that is not retryable, or a JSON decode failure), and makes
\* exactly one attempt when that attempt is the first.
C34_Terminates ==
    /\ [](attempts <= hcfg + 1)
    /\ [](\A r \in Responses :
            (hobs.last = r /\ Final(r)) =>
               /\ hpc = "done"
               /\ herr = IF r.status < 200 \/ r.status >= 300 THEN "permanent http"
                         ELSE IF r.body \in {"json1", "json2"} THEN "nil"
                         ELSE "permanent json"
               /\ hobs.prior = "none" => attempts = 1)
    /\ (hpc = "op") ~> (hpc = "done")

\* a call that used every retry, then got a body that is no JSON document
C34_Witness ==
    /\ hpc = "done" /\ herr = "permanent json"
    /\ hcfg = MaxRetriesLimit /\ attempts = hcfg + 1
    /\ hobs.prior = "retryable" /\ ~cancelled /\ ~elapsedOut

\* C35 (a value with a ttl never outlives it): after Set(k, v, ttl > 0) has
\* returned, no other Set of k overlapping or following it, in every
\* interleaving with Delete, Clear, Get and the cleanup goroutine there is no
\* state in which the store holds v for k while the TTL index has no entry
\* for k.
C35_NeverOutlives ==
    \A k \in Keys :
        ( /\ hist.last[k].v \in Vals
          /\ hist.last[k].e # NoExpiry
          /\ \A c \in Callers : "set" \notin Kind(c, k) )
        => ~(store[k] = hist.last[k].v /\ ttls[k] = NoExpiry)

\* a step of the Delete(k) that Get's lazy path or the cleanup goroutine
\* calls for an expiry read earlier
ExpiryDelStep(k) ==
    \/ \E c \in Callers :
          /\ call[c].op = "Get" /\ call[c].key = k
          /\ DelStore(c) \/ DelIdx(c)
    \/ ReaperDelStore /\ rkey' = k
    \/ ReaperDelIdx /\ rkey = k

\* C36 (expiry-driven deletion removes only expired entries): once
\* Set(k, v, ttl > 0) has returned, no other Set of k and no caller's Delete
\* or Clear overlapping or following it, and until its expiry, no Delete
\* issued by Get's lazy path or by the cleanup goroutine removes its value or
\* its expiry: such a Delete can only stem from an expiry read before the Set
\* completed.
C36_OnlyExpiredRemoved ==
    [][\A k \in Keys :
          ( /\ hist.last[k].v \in Vals
            /\ hist.last[k].e # NoExpiry
            /\ hist.undel[k]
            /\ now < hist.last[k].e
            /\ ExpiryDelStep(k) )
          => store'[k] = store[k] /\ ttls'[k] = ttls[k]]_vars

\* C37 (value and expiry from the same Set): when two Set calls on the same
\* key with positive ttls have run concurrently and both have returned, the
\* store's value and the TTL index's expiry for the key are the value and
\* the expiry of one and the same of the two calls.
C37_SamePair ==
    \A k \in SharedKeys :
        (\A c \in Callers : hist.pair[c] # NoSet) =>
            \E c \in Callers : store[k] = hist.pair[c].v /\ ttls[k] = hist.pair[c].e

\* a step of Set(k, ...), Delete(k) or Get(k), its lazy expiry included, or
\* of the cleanup goroutine's Delete(k)
KeyStep(k) ==
    \/ \E c \in Callers :
          \/ Get(c, k)
          \/ Delete(c, k)
          \/ \E v \in Vals, d \in TTLs, adm \in BOOLEAN : Set(c, k, v, d, adm)
          \/ /\ call[c].op \in {"Get", "Set", "Delete"} /\ call[c].key = k
             /\ CallStep(c)
    \/ ReaperDelStore /\ rkey' = k
    \/ rkey = k /\ (ReaperDelLock \/ ReaperDelIdx)

\* C38 (other keys are left alone): every step of Set(k, ...), Delete(k),
\* Get(k) with its lazy expiry, and of a deletion of k by the cleanup
\* goroutine leaves the stored value and the TTL index entry of every key
\* other than k unchanged.
C38_OtherKeysUntouched ==
    [][\A k \in Keys :
          KeyStep(k) => \A j \in Keys \ {k} : store'[j] = store[j] /\ ttls'[j] = ttls[j]]_vars

\* the cleanup goroutine has removed "a" from the store, a caller is in the
\* lazy expiry of "a", and "b" keeps its value and its expiry
C38_Witness ==
    /\ rpc = "r_del_lock" /\ rkey = "a" /\ store["a"] = None
    /\ call["c1"].op = "Get" /\ call["c1"].key = "a" /\ call["c1"].pc = "del_lock"
    /\ store["b"] \in Vals /\ ttls["b"] # NoExpiry
====
